---- MODULE Spec2Model ----
(***************************************************************************)
(* Order feed synchronisation of the relayer: the cursor-paginated fetch   *)
(* loop fetchOrders, the one-shot fetch paths fetchAllOrders,              *)
(* fetchListingsBySlug and fetchCollectionOffers, the orders_v23 store     *)
(* they share, the relay-orders queue they feed, the realtime worker with  *)
(* its persisted page token and coordination lock, the utilities           *)
(* parseSeaportOrder and buildFetchOrdersURL, and the refresh of the       *)
(* collections probed for offers.                                          *)
(***************************************************************************)
EXTENDS Integers, Sequences, FiniteSets, TLC

(***************************************************************************)
(* Bounds of the model.                                                    *)
(***************************************************************************)
\* longest page the upstream serves in the model
MaxPageLen == 2
\* page requests one fetchOrders run may issue in the model, retries included;
\* the upstream answers 429 only while the run may still issue the retry
MaxRequests == 3
\* realtime jobs added to the queue in the model
MaxJobs == 3
\* largest details.maxOrders a run is called with in the model
MaxMaxOrders == 2
\* the limit of the collections request in the model (limit=20), and the
\* passes of the loop over its pages (Math.ceil(1000 / 20))
MaxCollectionsPage == 2
MaxCollectionPages == 2
\* longest cursor buildFetchOrdersURL is called with in the model
MaxCursorLen == 3

(***************************************************************************)
(* Program constants.                                                      *)
(***************************************************************************)
\* the delay awaited before a rate-limited request is retried
RETRY_DELAY_MS == 5000
\* the worker's concurrency option
WORKER_CONCURRENCY == 2

(***************************************************************************)
(* Strings.  A string is a sequence of characters, so that toLowerCase is  *)
(* a conversion and not the identity.                                      *)
(***************************************************************************)
LowerChar(c) ==
    CASE c = "A" -> "a"
      [] c = "B" -> "b"
      [] c = "C" -> "c"
      [] c = "D" -> "d"
      [] OTHER -> c

ToLowerCase(s) == [i \in 1..Len(s) |-> LowerChar(s[i])]

\* JavaScript null for the cursor, and the cursors the upstream hands out
NullCursor == "null"
Cursors == {"c1"}
NextCursors == Cursors \cup {NullCursor}

\* if (cursor): null, undefined and "" are falsy
Truthy(c) == c \notin {NullCursor, ""}

\* details?.maxOrders left out
NoMax == -1

(***************************************************************************)
(* Records of the feed (SeaportOrder): the order hash as the upstream      *)
(* spells it, the protocol address, and the payload.  The Sdk order        *)
(* constructor throws on the payload "malformed".  The feed of the model   *)
(* serves one order under two spellings of its hash and with two protocol  *)
(* versions, and one order of a protocol the relayer does not know.        *)
(***************************************************************************)
ExchangeV14 == <<"0", "x", "c", "4">>
ExchangeV15 == <<"0", "x", "d", "5">>
OtherExchange == <<"0", "x", "e", "1">>

Records ==
    { [order_hash |-> <<"0", "x", "a">>, protocol_address |-> ExchangeV14,
       protocol_data |-> "p1"],
      [order_hash |-> <<"0", "x", "A">>, protocol_address |-> ExchangeV15,
       protocol_data |-> "p2"],
      [order_hash |-> <<"0", "x", "b">>, protocol_address |-> OtherExchange,
       protocol_data |-> "p1"] }

\* a page lists each of its records once
Pages ==
    UNION {{p \in [1..n -> Records] : \A i, j \in 1..n : p[i] = p[j] => i = j}
           : n \in 0..MaxPageLen}

Absent == [kind |-> "absent"]

\* new Sdk.SeaportV14.Order / new Sdk.SeaportV15.Order: throws on a payload
\* it cannot decode
OrderConstructorThrows(order) == order.protocol_data = "malformed"

\* a parseSeaportOrder without the try block: the error reaches the caller
ParseErrorRaised == [kind |-> "raised"]

\* catch (error) { logger.error(...) }: the call returns undefined
ParseErrorCaught == Absent

parseSeaportOrder(order) ==
    IF order.protocol_address = ExchangeV14
    THEN IF OrderConstructorThrows(order) THEN ParseErrorCaught
         ELSE [kind |-> "seaport-v1.4", data |-> order.protocol_data,
               hash |-> order.order_hash]
    ELSE IF order.protocol_address = ExchangeV15
    THEN IF OrderConstructorThrows(order) THEN ParseErrorCaught
         ELSE [kind |-> "seaport-v1.5", data |-> order.protocol_data,
               hash |-> order.order_hash]
    ELSE Absent

RECURSIVE SelectParsed(_)
SelectParsed(orders) ==
    IF orders = <<>> THEN <<>>
    ELSE LET parsed == parseSeaportOrder(Head(orders))
         IN  (IF parsed # Absent THEN <<parsed>> ELSE <<>>)
             \o SelectParsed(Tail(orders))

(***************************************************************************)
(* Rows of orders_v23.  Of the six columns the model keeps the key (hash), *)
(* the payload (data) and the source tag; target, maker and created_at are *)
(* copied from the record and take no part in the conflict rule.           *)
(***************************************************************************)
\* fetchOrders, fetchListingsBySlug, fetchCollectionOffers: values.push
RowLowercased(order) ==
    [hash |-> ToLowerCase(order.order_hash), data |-> order.protocol_data,
     source |-> "opensea"]

\* fetchAllOrders: values.push
RowVerbatim(order) ==
    [hash |-> order.order_hash, data |-> order.protocol_data,
     source |-> "opensea"]

\* a handleOrder that returned before values.push when the record did not parse
RECURSIVE ValuesOfParsedOnly(_)
ValuesOfParsedOnly(orders) ==
    IF orders = <<>> THEN <<>>
    ELSE (IF parseSeaportOrder(Head(orders)) # Absent
          THEN <<RowLowercased(Head(orders))>> ELSE <<>>)
         \o ValuesOfParsedOnly(Tail(orders))

\* await Promise.all(orders.map(handleOrder)): one row per record
ValuesLowercased(orders) == [i \in 1..Len(orders) |-> RowLowercased(orders[i])]
ValuesVerbatim(orders) == [i \in 1..Len(orders) |-> RowVerbatim(orders[i])]

\* an insert without the conflict rule
NeverConflicts(rows, row) == FALSE

\* the rows a statement would conflict with: same hash
Conflicts(rows, row) == \E r \in rows : r.hash = row.hash

\* INSERT ... ON CONFLICT DO NOTHING RETURNING 1, row by row: a row whose
\* hash is already there (stored before, or written earlier by the same
\* statement) is skipped; result counts the rows written
RECURSIVE InsertOnConflictDoNothing(_, _)
InsertOnConflictDoNothing(rows, values) ==
    IF values = <<>> THEN [rows |-> rows, result |-> 0]
    ELSE LET row == Head(values)
             skip == Conflicts(rows, row)
             rest == InsertOnConflictDoNothing(
                         IF skip THEN rows ELSE rows \cup {row}, Tail(values))
         IN  [rows |-> rest.rows,
              result |-> rest.result + (IF skip THEN 0 ELSE 1)]

\* an enqueue that handed nothing downstream
RelaysNothing(parsedOrders) == {}

\* addToRelayOrdersQueue(parsedOrders, true): the orders handed downstream
Relayed(parsedOrders) == {parsedOrders[i] : i \in 1..Len(parsedOrders)}

(***************************************************************************)
(* The realtime worker: values of the persisted page token.                *)
(***************************************************************************)
\* redis.get of a key that is not set
RedisNull == "nil"
\* page tokens a fetch pass hands back; "" when the response carries none
PageTokens == {"t1", "t2"}
EmptyToken == ""
\* what fetchOrdersByPageToken("sell", pageTokenCache) resolves to
FetchOrdersByPageTokenResults == PageTokens \cup {EmptyToken}

Slots == 1..WORKER_CONCURRENCY

FreeSlot ==
    [pc |-> "free", pageTokenCache |-> EmptyToken, newPageToken |-> EmptyToken,
     threw |-> FALSE, wrote |-> FALSE, releases |-> 0, sawPersisted |-> RedisNull]

(***************************************************************************)
(* State.                                                                  *)
(***************************************************************************)
VARIABLES
    store,          \* rows of orders_v23
    relayQueue,     \* orders handed to the relay-orders queue
    pc,             \* position of the fetchOrders run
    maxOrders,      \* details.maxOrders of the run (NoMax: not given)
    cursor,         \* fetchOrders: cursor
    total,          \* fetchOrders: total
    done,           \* fetchOrders: done
    orders,         \* fetchOrders: orders of the page in hand
    values,         \* fetchOrders: values of the page in hand
    parsedOrders,   \* fetchOrders: parsedOrders of the page in hand
    newHashes,      \* the hashes of the rows the insert of the page in hand wrote
    request,        \* the page request issued last: cursor, answer, delay
    nRequests,      \* page requests the run has issued
    submissions,    \* results of the submissions of one batch, in order
    afterFirst,     \* the rows stored after the first submission of the batch
    delayed,        \* realtime jobs added with a delay that has not run out
    waiting,        \* realtime jobs waiting for a worker slot
    jobsAdded,      \* realtime jobs added so far
    slot,           \* the job each worker slot is processing
    cache,          \* redis: coinbase-sync-last
    lastPersisted,  \* the token handed to the latest redis.set
    lock,           \* redis: coinbase-sync-lock is held
    seaportOrder,   \* parseSeaportOrder: the record it is called with
    parsed,         \* parseSeaportOrder: what the call came to
    params,         \* buildFetchOrdersURL: the cursor it is called with
    url,            \* buildFetchOrdersURL: the query string of the url it returns
    refreshPc,      \* position of refreshCollectionsToFetchOffers
    collections,    \* refreshCollectionsToFetchOffers: collections
    pagesFetched,   \* refreshCollectionsToFetchOffers: i
    nProbed,        \* refreshCollectionsToFetchOffers: collections gone through
    fetchOffersCollectionToAdd, \* refreshCollectionsToFetchOffers: the probes built
    probes,         \* the stored probe set (FetchOffersCollections "opensea")
    probesBefore,   \* the stored probe set when the refresh was called
    feed            \* the records the upstream lists, newest first

\* the variables of the fetchOrders run
runVars == <<pc, maxOrders, cursor, total, done, orders, values, parsedOrders,
             newHashes, request, nRequests>>

\* the variables of the batch submitted twice
batchVars == <<submissions, afterFirst>>

\* the variables of the realtime queue and its worker
realtimeVars == <<delayed, waiting, jobsAdded, slot, cache, lastPersisted, lock>>

\* the variables of the calls of the utilities of seaport.ts
utilVars == <<seaportOrder, parsed, params, url>>

\* the variables of refreshCollectionsToFetchOffers
refreshVars == <<refreshPc, collections, pagesFetched, nProbed,
                 fetchOffersCollectionToAdd, probes, probesBefore>>

\* the feed the upstream serves to a run (the records it lists, newest first)
feedVars == <<feed>>

vars == <<store, relayQueue, runVars, batchVars, realtimeVars, utilVars, refreshVars,
          feedVars>>

NoRequest == [cursor |-> NullCursor, answer |-> "none", after |-> 0]

InitRun ==
    /\ pc = "idle"
    /\ maxOrders = NoMax
    /\ cursor = NullCursor
    /\ total = 0
    /\ done = FALSE
    /\ orders = <<>>
    /\ values = <<>>
    /\ parsedOrders = <<>>
    /\ newHashes = {}
    /\ request = NoRequest
    /\ nRequests = 0

InitBatch ==
    /\ submissions = <<>>
    /\ afterFirst = {}

InitRealtime ==
    /\ delayed = 0
    /\ waiting = 0
    /\ jobsAdded = 0
    /\ slot = [s \in Slots |-> FreeSlot]
    /\ cache = RedisNull
    /\ lastPersisted = RedisNull
    /\ lock = FALSE

\* no record handed to parseSeaportOrder yet, no call made
NoOrder == [order_hash |-> <<>>, protocol_address |-> <<>>, protocol_data |-> "none"]
NotCalled == [kind |-> "none"]
NoUrl == [built |-> FALSE, hasCursor |-> FALSE, query |-> <<>>]

InitUtil ==
    /\ seaportOrder = NoOrder
    /\ parsed = NotCalled
    /\ params = <<>>
    /\ url = NoUrl

InitRefresh ==
    /\ refreshPc = "idle"
    /\ collections = <<>>
    /\ pagesFetched = 0
    /\ nProbed = 0
    /\ fetchOffersCollectionToAdd = <<>>
    /\ probes = {}
    /\ probesBefore = {}

Init ==
    /\ store = {}
    /\ relayQueue = {}
    /\ InitRun
    /\ InitBatch
    /\ InitRealtime
    /\ InitUtil
    /\ InitRefresh
    /\ feed = <<>>

(***************************************************************************)
(* fetchOrders.                                                            *)
(***************************************************************************)
\* a loop head that never compared the total with the maximum
LoopIgnoringMaximum == ~done

\* while (!done && (details?.maxOrders ? total < details.maxOrders : true))
\* a maxOrders of 0 is falsy, like one left out
LoopCondition ==
    /\ ~done
    /\ IF maxOrders # NoMax /\ maxOrders # 0 THEN total < maxOrders ELSE TRUE

\* the call: cursor = null, total = 0, done = false
FetchOrdersStart(m) ==
    /\ pc \in {"idle", "returned", "thrown"}
    /\ maxOrders' = m
    /\ pc' = "loop"
    /\ cursor' = NullCursor
    /\ total' = 0
    /\ done' = FALSE
    /\ orders' = <<>>
    /\ values' = <<>>
    /\ parsedOrders' = <<>>
    /\ newHashes' = {}
    /\ request' = NoRequest
    /\ nRequests' = 0
    /\ UNCHANGED <<store, relayQueue, batchVars, feedVars, utilVars, refreshVars, realtimeVars>>

\* the loop condition is false: "Seaport - Done"
FetchOrdersReturn ==
    /\ pc = "loop"
    /\ ~LoopCondition
    /\ pc' = "returned"
    /\ UNCHANGED <<store, relayQueue, maxOrders, cursor, total, done, orders,
                   values, parsedOrders, newHashes, request, nRequests, batchVars, feedVars, utilVars, refreshVars,
                   realtimeVars>>

\* a catch block that reset the cursor before the retry
RetryCursorReset == NullCursor

\* the cursor a retry carries: the loop variable, which the catch block
\* leaves alone
RetryCursor == cursor

\* axios.request(options) with the url built from the cursor
IssueRequest ==
    /\ pc = "loop"
    /\ LoopCondition
    /\ nRequests < MaxRequests
    /\ request' = [cursor |-> IF request.answer = "429" THEN RetryCursor ELSE cursor,
                   answer |-> "pending",
                   after |-> IF request.answer = "429" THEN RETRY_DELAY_MS ELSE 0]
    /\ nRequests' = nRequests + 1
    /\ pc' = "await"
    /\ UNCHANGED <<store, relayQueue, maxOrders, cursor, total, done, orders,
                   values, parsedOrders, newHashes, batchVars, feedVars, utilVars, refreshVars, realtimeVars>>

\* a loop that skipped the insert of every page
SkipsInsert(rows) == "loop"

\* a loop that sent the values to the insert whether it had any or not
AlwaysInserts(rows) == "insert"

\* if (values.length): the insert is issued only for a page with rows
AfterHandled(rows) == IF Len(rows) > 0 THEN "insert" ELSE "loop"

\* the answer arrives with the records `page` and the cursor `next`:
\* cursor = response.data.next, total += orders.length, every record is
\* handled, and the run goes on to the insert, or, with no values and so no
\* parsed orders, to "Batch done"
PageHandled(page, next) ==
    /\ pc = "await"
    /\ cursor' = next
    /\ orders' = page
    /\ total' = total + Len(page)
    /\ values' = ValuesLowercased(page)
    /\ parsedOrders' = SelectParsed(page)
    /\ pc' = AfterHandled(ValuesLowercased(page))
    /\ request' = [request EXCEPT !.answer = "ok"]
    /\ UNCHANGED <<store, relayQueue, maxOrders, done, newHashes, nRequests, batchVars, feedVars, utilVars, refreshVars,
                   realtimeVars>>

\* the upstream answers with any page and any next cursor
ReceivePage ==
    \E page \in Pages, next \in NextCursors : PageHandled(page, next)

\* a loop that never took an empty result for the end of the feed
DoneNeverSet(inserted) == done

\* if (_.isEmpty(result)) done = true
DoneAfterInsert(inserted) == done \/ inserted = 0

\* db.manyOrNone(insert ... ON CONFLICT DO NOTHING RETURNING 1) answers;
\* with no parsed orders the page is finished
InsertValues ==
    /\ pc = "insert"
    /\ LET ins == InsertOnConflictDoNothing(store, values)
       IN  /\ store' = ins.rows
           /\ done' = DoneAfterInsert(ins.result)
           /\ IF parsedOrders # <<>>
              THEN /\ pc' = "enqueue"
                   /\ newHashes' = {r.hash : r \in ins.rows \ store}
                   /\ UNCHANGED <<orders, values, parsedOrders>>
              ELSE /\ pc' = "loop"
                   /\ newHashes' = {}
                   /\ orders' = <<>>
                   /\ values' = <<>>
                   /\ parsedOrders' = <<>>
    /\ UNCHANGED <<relayQueue, maxOrders, cursor, total, request, nRequests,
                   batchVars, feedVars, utilVars, refreshVars, realtimeVars>>

\* a catch block that swallowed the rejection and went on to the enqueue
InsertFailureSwallowed == "enqueue"

\* the rejection of db.manyOrNone carries no response.status: the catch block
\* finds no 429 and reaches `throw error`
AfterInsertFailure == "thrown"

\* the insert rejects: the rest of the try block is skipped
InsertFails ==
    /\ pc = "insert"
    /\ pc' = AfterInsertFailure
    /\ UNCHANGED <<store, relayQueue, maxOrders, cursor, total, done, orders,
                   values, parsedOrders, newHashes, request, nRequests, batchVars, feedVars, utilVars, refreshVars,
                   realtimeVars>>

\* await addToRelayOrdersQueue(parsedOrders, true); "Batch done"
EnqueueParsed ==
    /\ pc = "enqueue"
    /\ relayQueue' = relayQueue \cup Relayed(parsedOrders)
    /\ pc' = "loop"
    /\ orders' = <<>>
    /\ values' = <<>>
    /\ parsedOrders' = <<>>
    /\ newHashes' = {}
    /\ UNCHANGED <<store, maxOrders, cursor, total, done, request, nRequests,
                   batchVars, feedVars, utilVars, refreshVars, realtimeVars>>

\* the enqueue rejects: the catch block finds no 429 and throws
EnqueueFails ==
    /\ pc = "enqueue"
    /\ pc' = "thrown"
    /\ UNCHANGED <<store, relayQueue, maxOrders, cursor, total, done, orders,
                   values, parsedOrders, newHashes, request, nRequests, batchVars, feedVars, utilVars, refreshVars,
                   realtimeVars>>

\* a catch block that retried every 429, cursor or not
AlwaysRetry == "sleep"

\* error.response?.status === 429 and if (cursor): sleep, then continue;
\* otherwise throw error
AfterRateLimited == IF Truthy(cursor) THEN "sleep" ELSE "thrown"

ReceiveRateLimited ==
    /\ pc = "await"
    /\ nRequests < MaxRequests
    /\ request' = [request EXCEPT !.answer = "429"]
    /\ pc' = AfterRateLimited
    /\ UNCHANGED <<store, relayQueue, maxOrders, cursor, total, done, orders,
                   values, parsedOrders, newHashes, nRequests, batchVars, feedVars, utilVars, refreshVars, realtimeVars>>

\* setTimeout(resolve, 5000) fires; continue
RetryAfterDelay ==
    /\ pc = "sleep"
    /\ pc' = "loop"
    /\ UNCHANGED <<store, relayQueue, maxOrders, cursor, total, done, orders,
                   values, parsedOrders, newHashes, request, nRequests, batchVars, feedVars, utilVars, refreshVars,
                   realtimeVars>>

\* a catch block that slept and retried whatever the failure
RetriesAnyError == "sleep"

\* the catch block, the status not being 429: throw error
AfterError == "thrown"

\* any other failure of the request (no response, another status)
ReceiveError ==
    /\ pc = "await"
    /\ request' = [request EXCEPT !.answer = "error"]
    /\ pc' = AfterError
    /\ UNCHANGED <<store, relayQueue, maxOrders, cursor, total, done, orders,
                   values, parsedOrders, newHashes, nRequests, batchVars, feedVars, utilVars, refreshVars, realtimeVars>>

fetchOrders ==
    \/ FetchOrdersStart(NoMax)
    \/ FetchOrdersReturn
    \/ IssueRequest
    \/ ReceivePage
    \/ InsertValues
    \/ InsertFails
    \/ EnqueueParsed
    \/ EnqueueFails
    \/ ReceiveRateLimited
    \/ RetryAfterDelay
    \/ ReceiveError

(***************************************************************************)
(* The one-shot fetch paths: one request, one batch.  Each is one step at  *)
(* the store and the queue; it may fail after the insert, at the enqueue.  *)
(* The fetchOrders run reads the store only at its insert, so a one-shot   *)
(* path is interleaved where the run awaits the answer to a page request,  *)
(* and between runs.                                                       *)
(***************************************************************************)
OneShot(rows, page, enqueued) ==
    /\ pc \in {"idle", "returned", "thrown", "await"}
    /\ Len(page) > 0
    /\ store' = InsertOnConflictDoNothing(store, rows).rows
    /\ relayQueue' = IF enqueued THEN relayQueue \cup Relayed(SelectParsed(page))
                     ELSE relayQueue
    /\ UNCHANGED <<runVars, batchVars, feedVars, utilVars, refreshVars, realtimeVars>>

fetchAllOrders ==
    \E page \in Pages, enqueued \in BOOLEAN :
        OneShot(ValuesVerbatim(page), page, enqueued)

fetchListingsBySlug ==
    \E page \in Pages, enqueued \in BOOLEAN :
        OneShot(ValuesLowercased(page), page, enqueued)

fetchCollectionOffers ==
    \E page \in Pages, enqueued \in BOOLEAN :
        OneShot(ValuesLowercased(page), page, enqueued)

Next ==
    \/ fetchOrders
    \/ fetchAllOrders
    \/ fetchListingsBySlug
    \/ fetchCollectionOffers

Spec == Init /\ [][Next]_vars

(***************************************************************************)
(* One batch submitted to the store twice.                                 *)
(***************************************************************************)
\* the stores the fetch paths can leave: rows of the feed's records, under
\* either spelling of the hash, no two with the same hash
FeedRows == {RowLowercased(o) : o \in Records} \cup {RowVerbatim(o) : o \in Records}
Stores == {S \in SUBSET FeedRows : \A r1, r2 \in S : r1.hash = r2.hash => r1 = r2}

InitInsert ==
    /\ store \in Stores
    /\ orders \in Pages \ {<<>>}
    /\ values \in {ValuesLowercased(orders), ValuesVerbatim(orders)}
    /\ relayQueue = {}
    /\ pc = "insert"
    /\ maxOrders = NoMax
    /\ cursor = NullCursor
    /\ total = Len(orders)
    /\ done = FALSE
    /\ parsedOrders = SelectParsed(orders)
    /\ newHashes = {}
    /\ request = [cursor |-> NullCursor, answer |-> "ok", after |-> 0]
    /\ nRequests = 1
    /\ InitBatch
    /\ InitRealtime
    /\ InitUtil
    /\ InitRefresh
    /\ feed = <<>>

\* the insert of a fetch path, issued for the batch in hand
SubmitBatch ==
    /\ Len(submissions) < 2
    /\ LET ins == InsertOnConflictDoNothing(store, values)
       IN  /\ store' = ins.rows
           /\ submissions' = Append(submissions, ins.result)
           /\ afterFirst' = IF submissions = <<>> THEN ins.rows ELSE afterFirst
    /\ UNCHANGED <<relayQueue, runVars, realtimeVars, utilVars, refreshVars, feedVars>>

SpecInsert == InitInsert /\ [][SubmitBatch]_vars

(***************************************************************************)
(* The fetchOrders run alone, with the fairness of its loop: the loop goes *)
(* on, the timer of the delay fires, and every request is answered.        *)
(***************************************************************************)
SpecLive ==
    /\ Init
    /\ [][fetchOrders]_vars
    /\ WF_vars(IssueRequest)
    /\ WF_vars(RetryAfterDelay)
    /\ WF_vars(ReceivePage \/ ReceiveRateLimited \/ ReceiveError)

(***************************************************************************)
(* The fetchOrders run alone, called with and without details.maxOrders.   *)
(***************************************************************************)
\* the values of details.maxOrders: left out, or a number from 0 up
MaxOrdersOptions == {NoMax} \cup 0..MaxMaxOrders

NextCapped ==
    \/ \E m \in MaxOrdersOptions \ {NoMax} : FetchOrdersStart(m)
    \/ fetchOrders

SpecCapped == Init /\ [][NextCapped]_vars

(***************************************************************************)
(* The fetchOrders run against a finite feed that does not change during   *)
(* the run, never fails and never rate-limits.  The feed lists its records *)
(* newest first and serves them in pages of `limit` records (MaxPageLen    *)
(* here): a request without a cursor is answered with the first page, a    *)
(* request with the cursor of a page with that page; the answer carries    *)
(* the cursor of the following page, and null after the last page.  With   *)
(* the one cursor of the model a feed has up to two pages.                 *)
(***************************************************************************)
Feeds ==
    UNION {{f \in [1..n -> Records] : \A i, j \in 1..n : f[i] = f[j] => i = j}
           : n \in {k \in 0..Cardinality(Records) : k <= 2 * MaxPageLen}}

\* the cursor of the second page
SecondPageCursor == CHOOSE c \in Cursors : TRUE

\* the records before the page a request asks for: none when the url has no
\* cursor parameter
FeedOffset(c) == IF Truthy(c) THEN MaxPageLen ELSE 0

\* response.data.orders of the answer to a request with cursor c
FeedPage(f, c) ==
    LET first == FeedOffset(c) + 1
        last  == IF FeedOffset(c) + MaxPageLen < Len(f)
                 THEN FeedOffset(c) + MaxPageLen ELSE Len(f)
    IN  IF first > last THEN <<>> ELSE SubSeq(f, first, last)

\* response.data.next of the answer to a request with cursor c
FeedNext(f, c) ==
    IF FeedOffset(c) + MaxPageLen < Len(f) /\ ~Truthy(c)
    THEN SecondPageCursor ELSE NullCursor

InitFeed ==
    /\ store = {}
    /\ relayQueue = {}
    /\ InitRun
    /\ InitBatch
    /\ InitRealtime
    /\ InitUtil
    /\ InitRefresh
    /\ feed \in Feeds

\* the feed answers the request in flight
ServeFeedPage ==
    PageHandled(FeedPage(feed, request.cursor), FeedNext(feed, request.cursor))

\* axios.request(options) once the run has issued MaxRequests requests: the
\* request goes out all the same, the count of the model stays at its bound
IssueRequestUncounted ==
    /\ pc = "loop"
    /\ LoopCondition
    /\ nRequests = MaxRequests
    /\ request' = [cursor |-> IF request.answer = "429" THEN RetryCursor ELSE cursor,
                   answer |-> "pending",
                   after |-> IF request.answer = "429" THEN RETRY_DELAY_MS ELSE 0]
    /\ pc' = "await"
    /\ UNCHANGED <<store, relayQueue, maxOrders, cursor, total, done, orders,
                   values, parsedOrders, newHashes, nRequests, batchVars, feedVars,
                   utilVars, refreshVars, realtimeVars>>

\* the steps of a run that nothing fails
FeedRun ==
    \/ IssueRequest
    \/ IssueRequestUncounted
    \/ ServeFeedPage
    \/ InsertValues
    \/ EnqueueParsed
    \/ FetchOrdersReturn

NextFeed ==
    \/ FetchOrdersStart(NoMax)
    \/ FeedRun

\* every await of the run resolves: the run goes on as long as it has a step
SpecFeed == InitFeed /\ [][NextFeed]_vars /\ WF_vars(FeedRun)

(***************************************************************************)
(* parseSeaportOrder called on its own, with every record made of the      *)
(* hashes, the protocol addresses (those of the two exchanges, the same    *)
(* spelled with an uppercase digit, and another) and the payloads (two     *)
(* that decode, one without a signature, one the constructor rejects).     *)
(***************************************************************************)
ParseInputs ==
    [order_hash : {<<"0", "x", "a">>, <<"0", "x", "A">>, <<"0", "x", "b">>},
     protocol_address : {ExchangeV14, ExchangeV15, OtherExchange,
                         <<"0", "x", "C", "4">>, <<"0", "x", "D", "5">>},
     protocol_data : {"p1", "p2", "unsigned", "malformed"}]

InitParse ==
    /\ store = {}
    /\ relayQueue = {}
    /\ InitRun
    /\ InitBatch
    /\ InitRealtime
    /\ InitRefresh
    /\ feed = <<>>
    /\ seaportOrder \in ParseInputs
    /\ parsed = NotCalled
    /\ params = <<>>
    /\ url = NoUrl

\* await seaport.parseSeaportOrder(order)
CallParseSeaportOrder ==
    /\ parsed = NotCalled
    /\ parsed' = parseSeaportOrder(seaportOrder)
    /\ UNCHANGED <<store, relayQueue, runVars, batchVars, feedVars, realtimeVars, refreshVars,
                   seaportOrder, params, url>>

\* the caller goes on to its next record
NextSeaportOrder ==
    /\ parsed # NotCalled
    /\ \E order \in ParseInputs : seaportOrder' = order
    /\ parsed' = NotCalled
    /\ UNCHANGED <<store, relayQueue, runVars, batchVars, feedVars, realtimeVars, refreshVars,
                   params, url>>

SpecParse == InitParse /\ [][CallParseSeaportOrder \/ NextSeaportOrder]_vars

(***************************************************************************)
(* buildFetchOrdersURL called on its own: the cursor is appended to the    *)
(* query parameters, the parameters are serialised, and the whole url is   *)
(* passed through decodeURI.  Cursors are strings over a letter, the two   *)
(* digits, "=" and "%"; the empty sequence stands for null and for "",     *)
(* which if (params.cursor) treats alike.                                  *)
(***************************************************************************)
UrlChars == {"z", "4", "1", "=", "%"}

CursorStrings == UNION {[1..n -> UrlChars] : n \in 0..MaxCursorLen}

\* URLSearchParams.toString(), one character: letters and digits stay, every
\* other character becomes its percent escape
SerializeChar(c) ==
    CASE c = "=" -> <<"%", "3", "D">>
      [] c = "%" -> <<"%", "2", "5">>
      [] OTHER -> <<c>>

RECURSIVE Serialize(_)
Serialize(s) == IF s = <<>> THEN <<>> ELSE SerializeChar(Head(s)) \o Serialize(Tail(s))

\* decodeURI: an escape is replaced by its character unless the character is
\* one of the reserved ; / ? : @ & = + $ , #
RECURSIVE DecodeURI(_)
DecodeURI(s) ==
    IF s = <<>> THEN <<>>
    ELSE IF Len(s) >= 3 /\ SubSeq(s, 1, 3) = <<"%", "2", "5">>
    THEN <<"%">> \o DecodeURI(SubSeq(s, 4, Len(s)))
    ELSE <<Head(s)>> \o DecodeURI(Tail(s))

\* if (params.cursor) queryParams.append("cursor", String(params.cursor));
\* return decodeURI(`${baseApiUrl}?${queryParams.toString()}`)
buildFetchOrdersURL(c) ==
    IF c = <<>> THEN [built |-> TRUE, hasCursor |-> FALSE, query |-> <<>>]
    ELSE [built |-> TRUE, hasCursor |-> TRUE, query |-> DecodeURI(Serialize(c))]

InitUrl ==
    /\ store = {}
    /\ relayQueue = {}
    /\ InitRun
    /\ InitBatch
    /\ InitRealtime
    /\ InitRefresh
    /\ feed = <<>>
    /\ seaportOrder = NoOrder
    /\ parsed = NotCalled
    /\ params \in CursorStrings
    /\ url = NoUrl

\* const url = seaport.buildFetchOrdersURL({ ..., cursor })
CallBuildFetchOrdersURL ==
    /\ ~url.built
    /\ url' = buildFetchOrdersURL(params)
    /\ UNCHANGED <<store, relayQueue, runVars, batchVars, feedVars, realtimeVars, refreshVars,
                   seaportOrder, parsed, params>>

\* the loop comes round with the cursor of the next response
NextCursor ==
    /\ url.built
    /\ \E c \in CursorStrings : params' = c
    /\ url' = NoUrl
    /\ UNCHANGED <<store, relayQueue, runVars, batchVars, feedVars, realtimeVars, refreshVars,
                   seaportOrder, parsed>>

SpecUrl == InitUrl /\ [][CallBuildFetchOrdersURL \/ NextCursor]_vars

(***************************************************************************)
(* refreshCollectionsToFetchOffers: the collections of the ranking are     *)
(* listed page by page, one probe is built for each collection whose token *)
(* request succeeds, and the probes are added to the stored set with the   *)
(* overwrite flag.  A ranking lists each collection once.                  *)
(***************************************************************************)
CollectionIds == {"k1", "k2", "k3"}
TokenIds == {"7", "8"}

\* collection.primaryContract
PrimaryContract(id) == <<"contract", id>>

\* the collections listed so far
Listed(list) == {list[j] : j \in 1..Len(list)}

\* response.data.collections: at most limit collections, none listed before
CollectionPages(list) ==
    UNION {{p \in [1..n -> CollectionIds \ Listed(list)] :
               \A j, k \in 1..n : p[j] = p[k] => j = k}
           : n \in 0..MaxCollectionsPage}

\* the call: collections = [], i = 0
RefreshStart ==
    /\ refreshPc \in {"idle", "completed"}
    /\ refreshPc' = "list"
    /\ collections' = <<>>
    /\ pagesFetched' = 0
    /\ nProbed' = 0
    /\ fetchOffersCollectionToAdd' = <<>>
    /\ probesBefore' = probes
    /\ UNCHANGED <<store, relayQueue, runVars, batchVars, feedVars, realtimeVars, utilVars,
                   probes>>

\* if (collections.length): the probes are built and added only when the
\* ranking listed a collection
AfterListing(list) == IF Len(list) > 0 THEN "probe" ELSE "completed"

\* one pass of the loop over the pages: the page is pushed to collections;
\* a short page, or the last pass, ends the loop
FetchCollectionsPage ==
    /\ refreshPc = "list"
    /\ pagesFetched < MaxCollectionPages
    /\ \E page \in CollectionPages(collections) :
        /\ collections' = collections \o page
        /\ refreshPc' = IF Len(page) < MaxCollectionsPage
                           \/ pagesFetched + 1 >= MaxCollectionPages
                        THEN AfterListing(collections \o page)
                        ELSE "list"
    /\ pagesFetched' = pagesFetched + 1
    /\ UNCHANGED <<store, relayQueue, runVars, batchVars, feedVars, realtimeVars, utilVars,
                   nProbed, fetchOffersCollectionToAdd, probes, probesBefore>>

\* the collections request fails: the outer catch logs "Failed"
FetchCollectionsFails ==
    /\ refreshPc = "list"
    /\ pagesFetched < MaxCollectionPages
    /\ refreshPc' = "completed"
    /\ UNCHANGED <<store, relayQueue, runVars, batchVars, feedVars, realtimeVars, utilVars,
                   collections, pagesFetched, nProbed, fetchOffersCollectionToAdd,
                   probes, probesBefore>>

\* the token request of the next collection answers: a probe with a token
\* picked by _.sample is pushed
ProbeCollection ==
    /\ refreshPc = "probe"
    /\ nProbed < Len(collections)
    /\ \E tokenId \in TokenIds :
        fetchOffersCollectionToAdd' =
            Append(fetchOffersCollectionToAdd,
                   [collection |-> collections[nProbed + 1],
                    contract |-> PrimaryContract(collections[nProbed + 1]),
                    tokenId |-> tokenId])
    /\ nProbed' = nProbed + 1
    /\ UNCHANGED <<store, relayQueue, runVars, batchVars, feedVars, realtimeVars, utilVars,
                   refreshPc, collections, pagesFetched, probes, probesBefore>>

\* the token request of the next collection fails: the inner catch logs, and
\* the loop goes on to the next collection
ProbeCollectionFails ==
    /\ refreshPc = "probe"
    /\ nProbed < Len(collections)
    /\ nProbed' = nProbed + 1
    /\ UNCHANGED <<store, relayQueue, runVars, batchVars, feedVars, realtimeVars, utilVars,
                   refreshPc, collections, pagesFetched,
                   fetchOffersCollectionToAdd, probes, probesBefore>>

\* an add that merged the new probes into the stored ones
MergedProbes(stored, toAdd) == stored \cup {toAdd[j] : j \in 1..Len(toAdd)}

\* fetchOffersCollections.add(toAdd, true): with the overwrite flag the
\* stored set becomes the probes added
AddedProbes(stored, toAdd) == {toAdd[j] : j \in 1..Len(toAdd)}

\* await fetchOffersCollections.add(fetchOffersCollectionToAdd, true)
AddProbes ==
    /\ refreshPc = "probe"
    /\ nProbed = Len(collections)
    /\ probes' = AddedProbes(probes, fetchOffersCollectionToAdd)
    /\ refreshPc' = "completed"
    /\ UNCHANGED <<store, relayQueue, runVars, batchVars, feedVars, realtimeVars, utilVars,
                   collections, pagesFetched, nProbed, fetchOffersCollectionToAdd,
                   probesBefore>>

refreshCollectionsToFetchOffers ==
    \/ RefreshStart
    \/ FetchCollectionsPage
    \/ FetchCollectionsFails
    \/ ProbeCollection
    \/ ProbeCollectionFails
    \/ AddProbes

SpecRefresh == Init /\ [][refreshCollectionsToFetchOffers]_vars

(***************************************************************************)
(* The realtime queue and its worker.  A job is processed in a slot of the *)
(* worker; the processor is the try block around the page-token pass, and  *)
(* the "completed" listener releases the coordination lock.                *)
(***************************************************************************)
\* delays addToRealtimeQueue is called with
Delays == {0, RETRY_DELAY_MS}

\* realtimeQueue.add(REALTIME_QUEUE_NAME, {}, { delay: delayMs })
addToRealtimeQueue(delayMs) ==
    /\ jobsAdded < MaxJobs
    /\ jobsAdded' = jobsAdded + 1
    /\ IF delayMs > 0
       THEN delayed' = delayed + 1 /\ UNCHANGED waiting
       ELSE waiting' = waiting + 1 /\ UNCHANGED delayed
    /\ UNCHANGED <<store, relayQueue, runVars, batchVars, feedVars, utilVars, refreshVars, slot, cache,
                   lastPersisted, lock>>

\* the QueueScheduler moves a job whose delay has run out to the wait list
PromoteDelayed ==
    /\ delayed > 0
    /\ delayed' = delayed - 1
    /\ waiting' = waiting + 1
    /\ UNCHANGED <<store, relayQueue, runVars, batchVars, feedVars, utilVars, refreshVars, jobsAdded, slot, cache,
                   lastPersisted, lock>>

\* a caller of the queue takes the coordination lock before it adds a job
AcquireLock ==
    /\ ~lock
    /\ lock' = TRUE
    /\ UNCHANGED <<store, relayQueue, runVars, batchVars, feedVars, utilVars, refreshVars, delayed, waiting,
                   jobsAdded, slot, cache, lastPersisted>>

\* the worker hands a waiting job to a free slot: the processor starts
TakeJob(s) ==
    /\ waiting > 0
    /\ slot[s].pc = "free"
    /\ waiting' = waiting - 1
    /\ slot' = [slot EXCEPT ![s] = [FreeSlot EXCEPT !.pc = "get"]]
    /\ UNCHANGED <<store, relayQueue, runVars, batchVars, feedVars, utilVars, refreshVars, delayed, jobsAdded,
                   cache, lastPersisted, lock>>

\* let pageTokenCache = await redis.get(cacheKey); null is read as ""
PageTokenRead(value) == IF value = RedisNull THEN EmptyToken ELSE value

ReadPageToken(s) ==
    /\ slot[s].pc = "get"
    /\ slot' = [slot EXCEPT ![s].pageTokenCache = PageTokenRead(cache),
                            ![s].sawPersisted = lastPersisted,
                            ![s].pc = "fetch"]
    /\ UNCHANGED <<store, relayQueue, runVars, batchVars, feedVars, utilVars, refreshVars, delayed, waiting,
                   jobsAdded, cache, lastPersisted, lock>>

\* a processor that wrote the token whatever the pass handed back
PersistsAlways(newPageToken) == TRUE

\* if (newPageToken)
Persists(newPageToken) == Truthy(newPageToken)

\* const [newPageToken] = await fetchOrdersByPageToken("sell", pageTokenCache)
FetchReturns(s) ==
    /\ slot[s].pc = "fetch"
    /\ \E token \in FetchOrdersByPageTokenResults :
        slot' = [slot EXCEPT ![s].newPageToken = token,
                             ![s].pc = IF Persists(token) THEN "set" ELSE "end"]
    /\ UNCHANGED <<store, relayQueue, runVars, batchVars, feedVars, utilVars, refreshVars, delayed, waiting,
                   jobsAdded, cache, lastPersisted, lock>>

\* a processor whose catch block threw the error on
CaughtAndRethrown == "rejected"

\* a processor that wrote the token in a finally block
CaughtAndPersisted == "set"

\* catch (error) { logger.error(...) }: the processor resolves
Caught == "end"

\* fetchOrdersByPageToken rejects
FetchThrows(s) ==
    /\ slot[s].pc = "fetch"
    /\ slot' = [slot EXCEPT ![s].threw = TRUE, ![s].pc = Caught]
    /\ UNCHANGED <<store, relayQueue, runVars, batchVars, feedVars, utilVars, refreshVars, delayed, waiting,
                   jobsAdded, cache, lastPersisted, lock>>

\* the value of redis.set(cacheKey, newPageToken)
Persisted(job) == job.newPageToken

\* await redis.set(cacheKey, newPageToken)
PersistPageToken(s) ==
    /\ slot[s].pc = "set"
    /\ cache' = Persisted(slot[s])
    /\ lastPersisted' = slot[s].newPageToken
    /\ slot' = [slot EXCEPT ![s].wrote = TRUE, ![s].pc = "end"]
    /\ UNCHANGED <<store, relayQueue, runVars, batchVars, feedVars, utilVars, refreshVars, delayed, waiting,
                   jobsAdded, lock>>

\* the processor settled.  Resolved: the job is completed and "completed" is
\* emitted.  Rejected: with attempts: 1 the job is failed, and "failed" has
\* no listener.
JobSettled(s) ==
    /\ slot[s].pc \in {"end", "rejected"}
    /\ slot' = [slot EXCEPT ![s].pc = IF slot[s].pc = "end" THEN "completed" ELSE "finished"]
    /\ UNCHANGED <<store, relayQueue, runVars, batchVars, feedVars, utilVars, refreshVars, delayed, waiting,
                   jobsAdded, cache, lastPersisted, lock>>

\* on("completed"): await releaseLock("coinbase-sync-lock", false)
ReleaseLock(s) ==
    /\ slot[s].pc = "completed"
    /\ lock' = FALSE
    /\ slot' = [slot EXCEPT ![s].releases = @ + 1, ![s].pc = "finished"]
    /\ UNCHANGED <<store, relayQueue, runVars, batchVars, feedVars, utilVars, refreshVars, delayed, waiting,
                   jobsAdded, cache, lastPersisted>>

\* the job is over and the slot is free for the next one
SlotFreed(s) ==
    /\ slot[s].pc = "finished"
    /\ slot' = [slot EXCEPT ![s] = FreeSlot]
    /\ UNCHANGED <<store, relayQueue, runVars, batchVars, feedVars, utilVars, refreshVars, delayed, waiting,
                   jobsAdded, cache, lastPersisted, lock>>

realtimeWorker ==
    \E s \in Slots :
        \/ TakeJob(s)
        \/ ReadPageToken(s)
        \/ FetchReturns(s)
        \/ FetchThrows(s)
        \/ PersistPageToken(s)
        \/ JobSettled(s)
        \/ ReleaseLock(s)
        \/ SlotFreed(s)

NextRealtime ==
    \/ \E delayMs \in Delays : addToRealtimeQueue(delayMs)
    \/ PromoteDelayed
    \/ AcquireLock
    \/ realtimeWorker

SpecRealtime == Init /\ [][NextRealtime]_vars

(***************************************************************************)
(* Properties of the store.                                                *)
(***************************************************************************)
\* C1: in every reachable state the store holds at most one row per order
\* hash, the hash being the order's whatever the spelling of its hex digits.
OneRowPerOrderHash ==
    \A r1, r2 \in store : ToLowerCase(r1.hash) = ToLowerCase(r2.hash) => r1 = r2

\* C2: a batch submitted to the store a second time leaves the rows it left
\* the first time, and the second submission reports zero rows written.
SecondSubmissionWritesNothing ==
    Len(submissions) = 2 => (submissions[2] = 0 /\ store = afterFirst)

\* a batch that wrote rows the first time has been submitted twice
SubmittedTwice == Len(submissions) = 2 /\ submissions[1] > 0

(***************************************************************************)
(* Properties of the fetchOrders loop.                                     *)
(***************************************************************************)
\* the run takes no step
RunIdles == UNCHANGED runVars

\* the insert of the page in hand answers, and writes no row
InsertWroteNothing == pc = "insert" /\ pc' \in {"enqueue", "loop"} /\ store' = store

\* C3, as claimed: once the insert of a page with records writes no row,
\* done is set, no further page request is issued and the run returns
\* normally after that page.
DoneRunReturnsNormally ==
    [][/\ InsertWroteNothing => done'
       /\ (done /\ pc \in {"enqueue", "loop"})
              => \/ RunIdles
                 \/ pc' \in {"loop", "returned"} /\ nRequests' = nRequests]_vars

\* C3, amended: once the insert of a page with records writes no row, done
\* is set and no further page request is issued; the run then returns
\* normally, unless the enqueue of that page's parsed orders fails, which
\* the run throws.
DoneRunRequestsNoFurtherPage ==
    [][/\ InsertWroteNothing => done'
       /\ (done /\ pc = "enqueue")
              => \/ RunIdles
                 \/ pc' \in {"loop", "thrown"} /\ nRequests' = nRequests
       /\ (done /\ pc = "loop")
              => \/ RunIdles
                 \/ pc' = "returned" /\ nRequests' = nRequests]_vars

\* a run has returned after its third page request, the page being stored
\* already
ReturnedAfterThirdPage == pc = "returned" /\ done /\ nRequests = 3

\* the answer 429 arrives for the request in flight
Answered429 == pc = "await" /\ request.answer = "pending" /\ request'.answer = "429"

RateLimitedFirstPageIsThrown ==
    [][/\ (Answered429 /\ ~Truthy(cursor)) => pc' = "thrown"
       /\ pc = "thrown"
              => \/ RunIdles
                 \/ pc' = "loop" /\ nRequests' = 0 /\ request' = NoRequest]_vars

\* the first request of a run was answered 429 and the run has thrown
FirstPageRateLimited ==
    pc = "thrown" /\ request.answer = "429" /\ nRequests = 1

\* C6: under the fairness of the loop and with an upstream that, once it
\* stops answering 429, serves the page, a run sent to sleep by a 429 with
\* a cursor eventually receives the page for that cursor and goes on.
RateLimitedRunIsServed ==
    \A c \in Cursors :
        [](request.answer # "error")
            => ((pc = "sleep" /\ cursor = c)
                    ~> (request.answer = "ok" /\ request.cursor = c
                        /\ pc \in {"insert", "loop"}))

\* a retried request has been served
RetryServed ==
    request.answer = "ok" /\ request.after = RETRY_DELAY_MS /\ pc = "insert"

\* the record parses: a known exchange and a payload the constructor takes
Parses(o) ==
    /\ o.protocol_address \in {ExchangeV14, ExchangeV15}
    /\ o.protocol_data # "malformed"

\* C7: of every page one row per record is submitted to the store, parsed or
\* not, exactly the records that parsed are enqueued, and a record that does
\* not parse never makes the run throw.
EveryRecordStoredParsedEnqueued ==
    /\ [](pc \in {"insert", "enqueue"}
            => /\ Len(values) = Len(orders)
               /\ \A i \in 1..Len(orders) :
                    /\ values[i].hash = ToLowerCase(orders[i].order_hash)
                    /\ values[i].data = orders[i].protocol_data
               /\ {p.hash : p \in Relayed(parsedOrders)}
                    = {orders[i].order_hash : i \in {j \in 1..Len(orders) : Parses(orders[j])}}
               /\ Len(parsedOrders)
                    = Cardinality({j \in 1..Len(orders) : Parses(orders[j])}))
    /\ [][/\ (pc = "await" /\ request'.answer = "ok") => pc' \in {"insert", "loop"}
          /\ (pc = "insert" /\ pc' \in {"enqueue", "loop"})
                => \A i \in 1..Len(values) : \E r \in store' : r.hash = values[i].hash
          /\ (pc = "enqueue" /\ pc' = "loop")
                => relayQueue' = relayQueue \cup Relayed(parsedOrders)]_vars

\* a page of one record that parsed and one of an unknown protocol: two rows
\* stored, one order to enqueue
TwoStoredOneEnqueued ==
    /\ pc = "enqueue"
    /\ Len(orders) = 2
    /\ Len(parsedOrders) = 1
    /\ \E i \in 1..2 : orders[i].protocol_address = OtherExchange
    /\ Cardinality({r \in store : \E i \in 1..2 : r.hash = values[i].hash}) = 2

(***************************************************************************)
(* Properties of the realtime worker.                                      *)
(***************************************************************************)
\* C8: a realtime run that has finished, its fetch having thrown or not, has
\* released the coordination lock exactly once, and no run releases it
\* before it finishes.
LockReleasedOncePerRun ==
    \A s \in Slots :
        /\ slot[s].pc = "finished" => slot[s].releases = 1
        /\ slot[s].pc # "finished" => slot[s].releases = 0

\* a run whose fetch threw has finished
ThrowingRunFinished ==
    \E s \in Slots : slot[s].pc = "finished" /\ slot[s].threw /\ ~lock

\* slot s takes a step
Steps(s) == slot'[s] # slot[s]

\* C9: a realtime run whose fetch threw is not rejected, so that its job is
\* completed, and no step of it writes the persisted page token.
ThrowingRunCompletesAndKeepsToken ==
    /\ [](\A s \in Slots :
            slot[s].threw => (~slot[s].wrote /\ slot[s].pc \in {"end", "completed", "finished"}))
    /\ [][\A s \in Slots :
            /\ (slot[s].threw /\ Steps(s)) => cache' = cache
            /\ (slot[s].pc = "fetch" /\ slot'[s].threw) => cache' = cache]_vars

\* a run whose fetch threw has been completed, after an earlier run had
\* written a token
ThrowingRunCompleted ==
    \E s \in Slots : slot[s].pc = "completed" /\ slot[s].threw /\ cache \in PageTokens

\* C10: the persisted page token is the non-empty token the latest writing
\* run's pass handed back; a run starts from the persisted token, or from ""
\* when none is persisted; a run whose pass hands back the empty token
\* writes none.
PersistedTokenRoundTrip ==
    /\ [][\A s \in Slots :
            /\ (slot[s].pc = "fetch" /\ Steps(s) /\ slot'[s].newPageToken = "") => cache' = cache
            /\ (slot[s].pc = "set" /\ Steps(s)) => cache' = slot[s].newPageToken]_vars
    /\ [](cache = lastPersisted)
    /\ [](cache # RedisNull => Truthy(cache))
    /\ [](\A s \in Slots :
            /\ slot[s].pc \notin {"free", "get"}
                  => slot[s].pageTokenCache
                        = (IF slot[s].sawPersisted = RedisNull THEN "" ELSE slot[s].sawPersisted)
            /\ slot[s].wrote => Truthy(slot[s].newPageToken)
            /\ (slot[s].pc \in {"end", "completed", "finished"} /\ ~slot[s].threw)
                  => (slot[s].wrote <=> slot[s].newPageToken # ""))

\* a run has started from the token an earlier run wrote, and its own pass
\* handed back the empty token
StartedFromPersistedToken ==
    \E s \in Slots :
        /\ slot[s].pc = "end"
        /\ slot[s].pageTokenCache \in PageTokens
        /\ slot[s].newPageToken = ""
        /\ cache = slot[s].pageTokenCache

\* the handler of the job in slot s is executing: from the processor's
\* start to its settling
InFlight(s) == slot[s].pc \in {"get", "fetch", "set", "end"}

\* C11: at any time at most one execution of the realtime job handler is in
\* flight, whatever the order of the addToRealtimeQueue calls, the worker's
\* takes and the lock releases.
AtMostOneRunInFlight == Cardinality({s \in Slots : InFlight(s)}) <= 1

(***************************************************************************)
(* Further properties of the fetchOrders loop.                             *)
(***************************************************************************)
\* the enqueue of the page in hand answers
Enqueues == pc = "enqueue" /\ pc' = "loop"

\* C12, as claimed: every order the enqueue of a page hands downstream has a
\* row that the insert of that page wrote; an order whose hash was stored
\* before the page is not handed downstream again.
EnqueuedOrdersWereNewlyInserted ==
    [][Enqueues
          => \A i \in 1..Len(parsedOrders) :
                ToLowerCase(parsedOrders[i].hash) \in newHashes]_vars

\* C12, amended: the enqueue of a page hands downstream every order of the
\* page that parsed, those whose rows were stored before the page included;
\* each has a row in the store by then.
EveryParsedOrderOfPageEnqueued ==
    [][Enqueues
          => \A i \in 1..Len(orders) :
                Parses(orders[i])
                    => /\ \E p \in relayQueue' : /\ p.hash = orders[i].order_hash
                                                 /\ p.data = orders[i].protocol_data
                       /\ \E r \in store : r.hash = ToLowerCase(orders[i].order_hash)]_vars

\* an order stored before the page, and handed downstream before, is about
\* to be handed downstream again
ForwardedAgain ==
    /\ pc = "enqueue"
    /\ \E i \in 1..Len(parsedOrders) :
        /\ ToLowerCase(parsedOrders[i].hash) \notin newHashes
        /\ parsedOrders[i] \in relayQueue

\* C15: a failure of a page request other than a 429 is thrown to the caller
\* at once, the run having a cursor or not: the request is not retried, and
\* the run that threw issues no further request.
OtherFailureIsThrown ==
    [][/\ (pc = "await" /\ request.answer = "pending" /\ request'.answer = "error")
              => /\ pc' = "thrown"
                 /\ nRequests' = nRequests
                 /\ UNCHANGED <<store, relayQueue, cursor, total, done>>
       /\ (pc = "thrown" /\ request.answer = "error")
              => \/ RunIdles
                 \/ pc' = "loop" /\ nRequests' = 0 /\ request' = NoRequest]_vars

\* a request made with a cursor has failed and the run has thrown
LaterPageFailed ==
    pc = "thrown" /\ request.answer = "error" /\ Truthy(request.cursor) /\ nRequests >= 2

\* the run issues a page request
Requests == pc = "loop" /\ pc' = "await"

\* C13: a page request is issued only while done is false and either no
\* maximum is given or total is below it, for every maximum from 0 up.
RequestsOnlyBelowMax ==
    [][Requests => (~done /\ (maxOrders = NoMax \/ total < maxOrders))]_vars

\* the answer to the request in flight is a page
PageArrives == pc = "await" /\ request'.answer = "ok"

\* the maximum the run was called with is reached
MaxReached == maxOrders # NoMax /\ total >= maxOrders

\* C18: a page with no record never sets done: the run is back at the head
\* of the loop with done false, and unless the maximum is reached its next
\* step is another page request.
EmptyPageNeverSetsDone ==
    [][/\ (PageArrives /\ orders' = <<>>)
              => (pc' = "loop" /\ ~done' /\ store' = store /\ total' = total)
       /\ (pc = "loop" /\ ~done /\ ~MaxReached)
              => (RunIdles \/ Requests)]_vars

\* the first page of a run had no record, and the run has requested the next
RequestedAfterEmptyPage ==
    /\ pc = "await"
    /\ request.answer = "pending"
    /\ request.after = 0
    /\ nRequests = 2
    /\ total = 0
    /\ ~done

\* every row of the page in hand is in the given rows
PagePersisted(rows) == \A j \in 1..Len(values) : \E r \in rows : r.hash = values[j].hash

\* C19: the next page is requested only when no page is in hand: every
\* record of a page is handled when the page arrives, the insert of its rows
\* comes next, the enqueue of its parsed orders comes after the insert has
\* answered, and only then is the run back at the head of the loop.
PageBarrier ==
    [][/\ Requests => (orders = <<>> /\ values = <<>> /\ parsedOrders = <<>>)
       /\ (PageArrives /\ orders' # <<>>)
              => /\ pc' = "insert"
                 /\ Len(values') = Len(orders')
                 /\ UNCHANGED <<store, relayQueue>>
       /\ (pc = "insert" /\ pc' # pc)
              => /\ relayQueue' = relayQueue
                 /\ \/ pc' = "thrown"
                    \/ pc' = "enqueue" /\ PagePersisted(store')
                    \/ pc' = "loop" /\ PagePersisted(store') /\ parsedOrders = <<>>
       /\ (pc = "enqueue" /\ pc' # pc)
              => /\ PagePersisted(store)
                 /\ store' = store
                 /\ pc' \in {"loop", "thrown"}
                 /\ pc' = "loop" => \A j \in 1..Len(parsedOrders) :
                                        parsedOrders[j] \in relayQueue'
       /\ pc' = "enqueue" => pc \in {"insert", "enqueue"}]_vars

\* the second page is requested after the first was stored and its parsed
\* orders enqueued
RequestedAfterPageDone ==
    /\ pc = "await"
    /\ request.answer = "pending"
    /\ request.after = 0
    /\ nRequests = 2
    /\ total > 0
    /\ store # {}
    /\ relayQueue # {}

\* C16: every row submitted to the store by any fetch path carries the
\* lowercased form of the record's hash, so that every stored hash is its
\* own lowercased form.
EveryStoredHashLowercased == \A r \in store : r.hash = ToLowerCase(r.hash)

(***************************************************************************)
(* Properties of the cursor in the page request.                           *)
(***************************************************************************)
\* the character an escape of a query string stands for
Unescaped(h1, h2) ==
    CASE h1 = "2" /\ h2 = "5" -> "%"
      [] h1 = "3" /\ h2 = "D" -> "="
      [] h1 = "4" /\ h2 = "1" -> "A"
      [] h1 = "4" /\ h2 = "4" -> "D"
      [] h1 = "1" /\ h2 = "1" -> "DC1"
      [] h1 = "1" /\ h2 = "4" -> "DC4"
      [] OTHER -> "none"

\* the value a query string carries for its parameter: every escape stands
\* for its character, and a "%" that starts no escape for itself
RECURSIVE CarriedValue(_)
CarriedValue(q) ==
    IF q = <<>> THEN <<>>
    ELSE IF Head(q) = "%" /\ Len(q) >= 3 /\ Unescaped(q[2], q[3]) # "none"
    THEN <<Unescaped(q[2], q[3])>> \o CarriedValue(SubSeq(q, 4, Len(q)))
    ELSE <<Head(q)>> \o CarriedValue(Tail(q))

\* C20: the first request of a run carries no cursor, and a request made
\* with a cursor carries exactly that cursor, character for character.
CursorCarriedVerbatim ==
    url.built
        => IF params = <<>> THEN ~url.hasCursor
           ELSE url.hasCursor /\ CarriedValue(url.query) = params

(***************************************************************************)
(* Properties of parseSeaportOrder.                                        *)
(***************************************************************************)
\* C17: parseSeaportOrder never raises: it returns the order under the kind
\* of the protocol version whose exchange address is, character for
\* character, the record's protocol address, and returns absent when no
\* address is, or when the constructor of the typed order throws.
ParseNeverRaises ==
    parsed # NotCalled
        => /\ parsed.kind \in {"seaport-v1.4", "seaport-v1.5", "absent"}
           /\ parsed.kind = "seaport-v1.4"
                <=> (seaportOrder.protocol_address = <<"0", "x", "c", "4">>
                     /\ seaportOrder.protocol_data # "malformed")
           /\ parsed.kind = "seaport-v1.5"
                <=> (seaportOrder.protocol_address = <<"0", "x", "d", "5">>
                     /\ seaportOrder.protocol_data # "malformed")
           /\ parsed.kind # "absent"
                => (parsed.data = seaportOrder.protocol_data
                    /\ parsed.hash = seaportOrder.order_hash)

\* the constructor threw on a record of a known exchange, and the call
\* returned absent
ThrowingRecordAbsent ==
    /\ parsed = Absent
    /\ seaportOrder.protocol_address = ExchangeV15
    /\ seaportOrder.protocol_data = "malformed"

(***************************************************************************)
(* Properties of refreshCollectionsToFetchOffers.                          *)
(***************************************************************************)
\* the probes this refresh built
ProbesBuilt ==
    {fetchOffersCollectionToAdd[j] : j \in 1..Len(fetchOffersCollectionToAdd)}

InsertRejected ==
    /\ pc = "insert"
    /\ pc' # "insert"
    /\ store' = store
    /\ ~done'

\* C21: when the bulk insert of a page fails, the failure is thrown to the
\* caller of fetchOrders: that step stores and enqueues nothing, and from the
\* thrown run no page is requested and nothing is enqueued until a new call
\* starts from the first page
InsertFailureAbortsRun ==
    [][ /\ InsertRejected =>
            /\ pc' = "thrown"
            /\ UNCHANGED <<store, relayQueue, nRequests, request, parsedOrders>>
        /\ (pc = "thrown" /\ request.answer = "ok") =>
            \/ UNCHANGED <<runVars, store, relayQueue>>
            \/ /\ pc' = "loop"
               /\ nRequests' = 0
               /\ cursor' = NullCursor
               /\ UNCHANGED <<store, relayQueue>> ]_vars

\* a run thrown by the insert of its second page: the page had parsed orders,
\* its rows are not all stored and none of its orders was enqueued
InsertFailedOnSecondPage ==
    /\ pc = "thrown"
    /\ request.answer = "ok"
    /\ nRequests = 2
    /\ parsedOrders # <<>>
    /\ ~PagePersisted(store)
    /\ \A i \in 1..Len(parsedOrders) : parsedOrders[i] \notin relayQueue

\* ---------------------------------------------------------------------------
\* Properties of the running total
\* ---------------------------------------------------------------------------

\* C23: with a maximum m > 0 and pages of at most `limit` records (MaxPageLen
\* here, 50 in the request), the running total never exceeds m + limit - 1:
\* the total is compared with the maximum only at the head of the loop, so
\* the last page overshoots it by less than one page
TotalOvershootsByLessThanAPage ==
    maxOrders > 0 => total <= maxOrders + MaxPageLen - 1

\* a run with maximum 1 that took a full page: the total passed the maximum
\* and the run returned without asking for another page
MaximumOvershot ==
    /\ pc = "returned"
    /\ maxOrders = 1
    /\ total = MaxPageLen
    /\ total > maxOrders
    /\ nRequests = 1

\* ---------------------------------------------------------------------------
\* Termination of a run with no maximum on a finite feed
\* ---------------------------------------------------------------------------

\* C22 as stated: on every finite feed that never fails, a run with no
\* maximum reaches "Done", the feed without records included
EveryFeedRunTerminates == (pc = "loop") ~> (pc = "returned")

\* C22: on every finite feed with at least one record that never fails, a
\* run with no maximum reaches "Done": after the last page the cursor is null
\* again, the first page is served once more, its rows conflict and done is
\* set.  On the feed without records done is never set and the run never
\* reaches "Done"
NonEmptyFeedRunTerminates ==
    /\ (feed # <<>> /\ pc = "loop") ~> (pc = "returned")
    /\ [](feed = <<>> => ~done /\ pc # "returned")

\* a run over a feed of two pages that returned: its last page came without
\* a next cursor, and its last request, without cursor, was served the first
\* page again
ReturnedAfterFirstPageServedAgain ==
    /\ pc = "returned"
    /\ done
    /\ Len(feed) > MaxPageLen
    /\ nRequests = 3
    /\ request.cursor = NullCursor
    /\ request.answer = "ok"

====
